---- MODULE Spec2Model ----
(***************************************************************************)
(* The Sprite / Rabbit actor of src/components/Sprite.js and               *)
(* src/components/Rabbit.js, together with the part of the browser it      *)
(* talks to: the document's listeners, the listeners and running CSS       *)
(* animations of each element the actor created, pending timeouts and      *)
(* pending animation frames.                                               *)
(*                                                                         *)
(* Every method and every callback is an operator from a world record to   *)
(* a world record, written statement by statement from the source; an      *)
(* action applies one of them to the current world.                        *)
(***************************************************************************)
EXTENDS Integers, Sequences, FiniteSets

\* ------------------------------------------------------------------ bounds
\* Elements the actor may create over its life.
MaxElements == 1
\* animationend listeners that may sit on one element at a time.
MaxListeners == 2
\* Closures of one kind (mouse, click, early) alive at a time.
MaxClosures == 2
\* Pending timeouts alive at a time.
MaxTimers == 2
\* The stored x stays within [-MaxAbsX, MaxAbsX].
MaxAbsX == 1000
\* Math.random() takes 3 * MaxThirds equally likely values.
MaxThirds == 1

\* The longest user name of the URL that is tried.
MaxNameLength == 3

\* ------------------------------------------------------- RABBIT_CONFIG
width == 32
height == 64
scale == 4
jumpDistance == 300
mouseThreshold == 150
\* const edgeMargin = 20 in Rabbit.jump
edgeMargin == 20

\* JavaScript values that need not be finite numbers (a distance, a glow
\* value, a configuration key) carry a tag: a number, undefined, NaN or
\* Infinity.
Num(n) == [t |-> "number", v |-> n]
Undefined == [t |-> "undefined", v |-> 0]
NaN == [t |-> "NaN", v |-> 0]
Infinity == [t |-> "Infinity", v |-> 0]
\* ToNumber(undefined) is NaN.
IsNaN(a) == a.t \in {"undefined", "NaN"}

\* Keys Rabbit.js reads that RABBIT_CONFIG does not define: reading them
\* yields undefined.
clickRadius == Undefined
glowBoostPerClick == Undefined
maxPermanentGlow == Undefined
glowRange == Undefined
maxProximityGlow == Undefined
maxProximitySpread == Undefined
glowExponent == Undefined

\* a < b : every comparison with NaN is false.
LtJS(a, b) ==
  IF IsNaN(a) \/ IsNaN(b) THEN FALSE
  ELSE IF a.t = "Infinity" THEN FALSE
  ELSE IF b.t = "Infinity" THEN TRUE
  ELSE a.v < b.v

\* a <= b
LeJS(a, b) ==
  IF IsNaN(a) \/ IsNaN(b) THEN FALSE
  ELSE IF b.t = "Infinity" THEN TRUE
  ELSE IF a.t = "Infinity" THEN FALSE
  ELSE a.v <= b.v

\* a + b (no negative infinity arises here)
AddJS(a, b) ==
  IF IsNaN(a) \/ IsNaN(b) THEN NaN
  ELSE IF a.t = "Infinity" \/ b.t = "Infinity" THEN Infinity
  ELSE Num(a.v + b.v)

\* a * b : 0 * Infinity is NaN
MulJS(a, b) ==
  IF IsNaN(a) \/ IsNaN(b) THEN NaN
  ELSE IF a.t = "Infinity" \/ b.t = "Infinity"
    THEN (IF a = Num(0) \/ b = Num(0) THEN NaN ELSE Infinity)
  ELSE Num(a.v * b.v)

\* a === b on numbers: NaN equals nothing, itself included.
StrictEqJS(a, b) == ~IsNaN(a) /\ ~IsNaN(b) /\ a = b

\* Math.min(a, b): NaN if either argument converts to NaN.
MathMin(a, b) ==
  IF IsNaN(a) \/ IsNaN(b) THEN NaN
  ELSE IF a.t = "Infinity" THEN b
  ELSE IF b.t = "Infinity" THEN a
  ELSE IF a.v < b.v THEN a ELSE b

\* ------------------------------------------------------------ inputs
\* window.innerWidth values; 600 makes both directions infeasible for
\* some x, 1000 leaves room in both directions around x = 400.
Widths == {600, 1000}
\* window.innerHeight
Heights == {800}
\* spawnAndDrop / setPosition arguments
SpawnXs == {100, 200, 400}
SpawnYs == {0}
\* Pointer coordinates carried by mousemove and click events.
Pointers == {<<10, 10>>}
\* lastMouseX = lastMouseY = null
NoMouse == <<>>
\* Distance from the pointer to the rendered bottom-center, which depends
\* on the element's rendered box and is therefore the environment's.
Distances == {Num(0), Num(200)}
\* Math.random() returns r / (3 * MaxThirds) for r drawn uniformly from
\* RandomDraws: equally likely values spread evenly over [0, 1).
RandomDraws == 0..(3 * MaxThirds - 1)
\* Math.random() < 0.5, the draw of an unbiased coin.
FlipDraw_Half(r) == 2 * r < 3 * MaxThirds
\* Math.random() < 1/3 for the value r stands for.
FlipDraw(r) == 3 * r < 3 * MaxThirds
\* Math.random() < 1/3 : the two outcomes of the draw.
Draws == {FlipDraw(r) : r \in RandomDraws}

Null == 0
ElementIds == 1..MaxElements
SpawnDrop == "rabbit-spawn-drop"
JumpSprite == "rabbit-jump-sprite"
OtherAnimation == "rabbit-jump-move"

\* An element's inline style before anything is set on it.
Unset == [t |-> "unset", v |-> 0]
NoStyle == [left |-> Unset, top |-> Unset, glowIntensity |-> Unset,
            glowSpread |-> Unset]

\* An animationend listener: onSpawnEnd, or onJumpEnd with what its closure
\* captured (direction, isFirstJump), whether the pointer handler chained
\* the cooldown continuation on its promise, and whether the promise has
\* been resolved.
OnSpawnEnd ==
  [kind |-> "spawn", direction |-> 0, first |-> FALSE, byPointer |-> FALSE,
   resolved |-> FALSE]
OnJumpEnd(direction, first, byPointer) ==
  [kind |-> "jump", direction |-> direction, first |-> first,
   byPointer |-> byPointer, resolved |-> FALSE]

\* A closure subscribed on document: an earlyMouseHandler ("early"), a
\* mouseHandler ("mouse") or a clickHandler ("click"); n tells two closures
\* of one kind apart, and is what the actor's fields hold.
Closure(kind, n) == [kind |-> kind, n |-> n]

\* ------------------------------------------------------------- state
VARIABLES
  \* Sprite fields
  element, x, y, eventHandlers, timers, isDestroyed,
  \* Rabbit fields
  isSpawning, isJumping, jumpCooldown, isFirstJump, colorRevealed,
  lastDirection, permanentGlowBonus, lastMouse, glowAnimationId,
  mouseHandler, clickHandler, earlyMouseHandler,
  \* browser
  docListeners,   \* closures subscribed on document
  elListeners,    \* per element: sequence of animationend listeners
  anims,          \* per element: names of the CSS animations running
  style,          \* per element: left, top and the two glow properties
  classes,        \* per element: its classList
  attached,       \* elements attached to the DOM
  created,        \* elements created so far
  envTimers,      \* ids of pending timeouts
  rafPending,     \* ids of pending animation frames
  thrown,         \* some callback or method threw a TypeError
  innerWidth, innerHeight,
  \* main.js
  boot            \* where main() stands, and what the terminal shows

actorVars == <<element, x, y, eventHandlers, timers, isDestroyed,
          isSpawning, isJumping, jumpCooldown, isFirstJump, colorRevealed,
          lastDirection, permanentGlowBonus, lastMouse, glowAnimationId,
          mouseHandler, clickHandler, earlyMouseHandler,
          docListeners, elListeners, anims, style, classes, attached,
          created, envTimers, rafPending, thrown, innerWidth, innerHeight>>

vars == <<actorVars, boot>>

\* The current world as one record, so that methods compose as functions.
World ==
  [element |-> element, x |-> x, y |-> y, eventHandlers |-> eventHandlers,
   timers |-> timers, isDestroyed |-> isDestroyed,
   isSpawning |-> isSpawning, isJumping |-> isJumping,
   jumpCooldown |-> jumpCooldown, isFirstJump |-> isFirstJump,
   colorRevealed |-> colorRevealed, lastDirection |-> lastDirection,
   permanentGlowBonus |-> permanentGlowBonus, lastMouse |-> lastMouse,
   glowAnimationId |-> glowAnimationId, mouseHandler |-> mouseHandler,
   clickHandler |-> clickHandler, earlyMouseHandler |-> earlyMouseHandler,
   docListeners |-> docListeners, elListeners |-> elListeners,
   anims |-> anims, style |-> style, classes |-> classes,
   attached |-> attached, created |-> created,
   envTimers |-> envTimers, rafPending |-> rafPending, thrown |-> thrown,
   innerWidth |-> innerWidth, innerHeight |-> innerHeight]

\* The actor and the browser become the world w.
BecomeActor(w) ==
  /\ element' = w.element /\ x' = w.x /\ y' = w.y
  /\ eventHandlers' = w.eventHandlers /\ timers' = w.timers
  /\ isDestroyed' = w.isDestroyed
  /\ isSpawning' = w.isSpawning /\ isJumping' = w.isJumping
  /\ jumpCooldown' = w.jumpCooldown /\ isFirstJump' = w.isFirstJump
  /\ colorRevealed' = w.colorRevealed /\ lastDirection' = w.lastDirection
  /\ permanentGlowBonus' = w.permanentGlowBonus /\ lastMouse' = w.lastMouse
  /\ glowAnimationId' = w.glowAnimationId /\ mouseHandler' = w.mouseHandler
  /\ clickHandler' = w.clickHandler
  /\ earlyMouseHandler' = w.earlyMouseHandler
  /\ docListeners' = w.docListeners /\ elListeners' = w.elListeners
  /\ anims' = w.anims /\ style' = w.style /\ classes' = w.classes
  /\ attached' = w.attached /\ created' = w.created
  /\ envTimers' = w.envTimers /\ rafPending' = w.rafPending
  /\ thrown' = w.thrown
  /\ innerWidth' = w.innerWidth /\ innerHeight' = w.innerHeight

\* The next state is the world w; main() does not move.
Become(w) == BecomeActor(w) /\ boot' = boot

\* new Rabbit(): Sprite's constructor, then Rabbit's; the page is loaded in
\* a viewport of some size and nothing is subscribed or scheduled yet.
RabbitConstructed ==
  /\ element = Null /\ x = 0 /\ y = 0
  /\ eventHandlers = {} /\ timers = {} /\ isDestroyed = FALSE
  /\ isSpawning = TRUE /\ isJumping = FALSE /\ jumpCooldown = FALSE
  /\ isFirstJump = TRUE /\ colorRevealed = FALSE /\ lastDirection = -1
  /\ permanentGlowBonus = Num(0) /\ lastMouse = NoMouse /\ glowAnimationId = Null
  /\ mouseHandler = Null /\ clickHandler = Null /\ earlyMouseHandler = Null
  /\ docListeners = {}
  /\ elListeners = [e \in ElementIds |-> <<>>]
  /\ anims = [e \in ElementIds |-> {}]
  /\ style = [e \in ElementIds |-> NoStyle]
  /\ classes = [e \in ElementIds |-> {}]
  /\ attached = {} /\ created = 0
  /\ envTimers = {} /\ rafPending = {} /\ thrown = FALSE
  /\ innerWidth \in Widths /\ innerHeight \in Heights

\* The state of main.js on a page that does not run main(): the actor is
\* driven through its methods alone.
NoBoot ==
  [pc |-> "none", preload |-> "pending", wakeUpLength |-> 0, cmd |-> 0, typed |-> 0,
   currentLine |-> <<>>, history |-> <<>>, cursorHidden |-> FALSE,
   errorShown |-> FALSE, rabbit |-> FALSE]

Init == RabbitConstructed /\ boot = NoBoot

\* ---------------------------------------------------- browser handles
\* Handles are opaque to the program: it stores them, tests them for
\* truthiness and hands them back. The least positive integer not in use
\* stands for "a handle different from every live one".
FreshId(used) == CHOOSE n \in 1..(Cardinality(used) + 1) : n \notin used

\* The numbers of the closures of one kind still subscribed on document.
Subscribed(w, kind) == {c.n : c \in {d \in w.docListeners : d.kind = kind}}

\* ------------------------------------------------------------ Sprite.js
\* Rabbit.createElement as spawn uses it: a new element of class
\* 'rabbit spawning flipped'; once attached, the class 'spawning' runs the
\* drop animation on it.
createElement(w) ==
  [w EXCEPT !.created = w.created + 1,
            !.element = w.created + 1,
            !.classes[w.created + 1] = {"rabbit", "spawning", "flipped"}]

\* Sprite.updatePosition
updatePosition(w) ==
  IF w.element = Null THEN w
  ELSE [w EXCEPT !.style[w.element].left = Num(w.x),
                 !.style[w.element].top = Num(w.y)]

\* Sprite.spawn
spawn(w) ==
  IF w.element # Null THEN w    \* console.warn('Sprite already spawned')
  ELSE LET w1 == createElement(w)
           w2 == updatePosition(w1)
       IN [w2 EXCEPT !.attached = w2.attached \cup {w2.element},
                     !.anims[w2.element] = {SpawnDrop}]

\* setPosition storing the coordinates without reflecting them onto the
\* element.
setPosition_NoReflect(w, px, py) == [w EXCEPT !.x = px, !.y = py]

\* Sprite.setPosition
setPosition(w, px, py) == updatePosition([w EXCEPT !.x = px, !.y = py])

\* Sprite.addEventListener(document, event, handler): Rabbit never passes
\* options, so the handler is always tracked.
addEventListener(w, closure) ==
  [w EXCEPT !.docListeners = w.docListeners \cup {closure},
            !.eventHandlers = w.eventHandlers \cup {closure}]

\* Sprite.setTimeout(callback, delay): schedules and tracks the id.
setTimeout(w) ==
  LET id == FreshId(w.envTimers)
  IN [w EXCEPT !.envTimers = w.envTimers \cup {id},
               !.timers = w.timers \cup {id}]

\* Sprite.destroy with neither the isDestroyed guard nor the check of
\* this.element before this.element.remove().
SpriteDestroy_Unguarded(w) ==
  LET w1 == [w EXCEPT !.isDestroyed = TRUE,
                      !.docListeners = w.docListeners \ w.eventHandlers,
                      !.eventHandlers = {},
                      !.envTimers = w.envTimers \ w.timers,
                      !.timers = {}]
  IN IF w1.element = Null THEN [w1 EXCEPT !.thrown = TRUE]
     ELSE [w1 EXCEPT !.attached = w1.attached \ {w1.element},
                     !.element = Null]

\* Sprite.destroy
SpriteDestroy(w) ==
  IF w.isDestroyed THEN w
  ELSE LET w1 == [w EXCEPT !.isDestroyed = TRUE,
                           !.docListeners = w.docListeners \ w.eventHandlers,
                           !.eventHandlers = {},
                           !.envTimers = w.envTimers \ w.timers,
                           !.timers = {}]
       IN IF w1.element = Null THEN w1
          ELSE [w1 EXCEPT !.attached = w1.attached \ {w1.element},
                          !.element = Null]

\* ------------------------------------------------------------ Rabbit.js
\* Rabbit.getDistanceToBottomCenter: d is the distance the rendered box
\* gives for the event's coordinates.
getDistanceToBottomCenter(w, d) == IF w.element = Null THEN Infinity ELSE d

\* Rabbit.updateGlow. With glowRange undefined the comparison is false and
\* the proximity factor stays 0; inside the branch Math.pow(t, glowExponent)
\* with glowExponent undefined is NaN for every t.
updateGlow(w, distance) ==
  IF w.element = Null THEN w
  ELSE LET proximityFactor == IF LtJS(distance, glowRange) THEN NaN ELSE Num(0)
           totalGlow ==
             AddJS(AddJS(Num(1), MulJS(proximityFactor, maxProximityGlow)),
                   w.permanentGlowBonus)
           totalSpread == AddJS(Num(1), MulJS(proximityFactor, maxProximitySpread))
       IN [w EXCEPT !.style[w.element].glowIntensity = totalGlow,
                    !.style[w.element].glowSpread = totalSpread]

\* Rabbit.updateGlowFromStoredPosition
updateGlowFromStoredPosition(w, d) ==
  IF w.lastMouse = NoMouse THEN w
  ELSE updateGlow(w, getDistanceToBottomCenter(w, d))

\* startGlowAnimation without its glowAnimationId guard.
startGlowAnimation_NoGuard(w) ==
  LET id == FreshId(w.rafPending)
  IN [w EXCEPT !.rafPending = w.rafPending \cup {id},
               !.glowAnimationId = id]

\* Rabbit.startGlowAnimation
startGlowAnimation(w) ==
  IF w.glowAnimationId # Null THEN w
  ELSE LET id == FreshId(w.rafPending)
       IN [w EXCEPT !.rafPending = w.rafPending \cup {id},
                    !.glowAnimationId = id]

\* Rabbit.stopGlowAnimation
stopGlowAnimation(w) ==
  IF w.glowAnimationId = Null THEN w
  ELSE [w EXCEPT !.rafPending = w.rafPending \ {w.glowAnimationId},
                 !.glowAnimationId = Null]

\* The frame callback `animate` of startGlowAnimation, run for the pending
\* frame id.
animate(w, id, d) ==
  LET w1 == [w EXCEPT !.rafPending = w.rafPending \ {id}]
      w2 == updateGlowFromStoredPosition(w1, d)
      next == FreshId(w2.rafPending)
  IN [w2 EXCEPT !.rafPending = w2.rafPending \cup {next},
                !.glowAnimationId = next]

\* Rabbit.spawnAndDrop. this.element is dereferenced right after spawn();
\* spawn leaves it non-null in every case.
spawnAndDrop(w, px, py) ==
  LET w1 == spawn([w EXCEPT !.x = px, !.y = py])
      w2 == updatePosition(
              [w1 EXCEPT !.classes[w1.element] = @ \cup {"crt-effects"}])
      n == FreshId(Subscribed(w2, "early"))
      w3 == [w2 EXCEPT !.earlyMouseHandler = n,
                       !.docListeners = w2.docListeners \cup {Closure("early", n)}]
      w4 == startGlowAnimation(w3)
  IN [w4 EXCEPT !.elListeners[w4.element] =
                   Append(w4.elListeners[w4.element], OnSpawnEnd)]

\* The continuation setting jumpCooldown without scheduling the timeout
\* that clears it.
cooldownContinuation_NoTimer(w) == [w EXCEPT !.jumpCooldown = TRUE]

\* The continuation the pointer handler chains on the jump's promise:
\* jumpCooldown = true, then a tracked timeout that will clear it.
cooldownContinuation(w) == setTimeout([w EXCEPT !.jumpCooldown = TRUE])

\* resolve(): the promise's continuations run in the microtask that follows,
\* before any other event is handled.
Resolve(w, byPointer) == IF byPointer THEN cooldownContinuation(w) ELSE w

\* const canGoLeft / canGoRight in Rabbit.jump
canGoLeft(px) == px - jumpDistance >= edgeMargin
canGoRight(px, W) == px + jumpDistance + width * scale <= W - edgeMargin

\* The direction Rabbit.jump chooses at x = px in a viewport W wide:
\* 1 = left, -1 = right, 0 = the trapped branch, which chooses none.
\* flip is the outcome of Math.random() < 1/3.
Direction(first, px, W, last, flip) ==
  IF first THEN (IF canGoRight(px, W) THEN -1 ELSE 1)
  ELSE IF ~canGoLeft(px) /\ ~canGoRight(px, W) THEN 0
  ELSE IF ~canGoLeft(px) THEN -1
  ELSE IF ~canGoRight(px, W) THEN 1
  ELSE IF flip THEN -last ELSE last

\* The classList changes of Rabbit.jump on a class set cs: 'color-fade' on
\* the first jump, 'flipped' by direction, 'jumping' removed and added.
JumpClasses(cs, first, direction) ==
  LET c1 == IF first THEN cs \cup {"color-fade"} ELSE cs
      c2 == IF direction = -1 THEN c1 \cup {"flipped"} ELSE c1 \ {"flipped"}
  IN c2 \cup {"jumping"}

\* Rabbit.jump applying the displacement when the jump starts instead of
\* leaving it to onJumpEnd.
jump_MovesAtStart(w, flip, byPointer) ==
  IF w.element = Null \/ w.isSpawning THEN Resolve(w, byPointer)
  ELSE
    LET direction == Direction(w.isFirstJump, w.x, w.innerWidth,
                               w.lastDirection, flip)
    IN IF direction = 0
       THEN Resolve([w EXCEPT !.isJumping = FALSE], byPointer)
       ELSE
         LET w1 == [w EXCEPT !.isFirstJump = FALSE,
                             !.lastDirection = direction,
                             !.x = w.x - jumpDistance * direction,
                             !.classes[w.element] =
                               JumpClasses(@, w.isFirstJump, direction),
                             !.anims[w.element] = @ \cup {JumpSprite}]
             w2 == startGlowAnimation(w1)
         IN [w2 EXCEPT !.elListeners[w.element] =
                          Append(@, OnJumpEnd(direction, w.isFirstJump, byPointer))]

\* Rabbit.jump testing only this.element in its opening guard, not
\* isSpawning.
jump_NoSpawningGuard(w, flip, byPointer) ==
  IF w.element = Null THEN Resolve(w, byPointer)
  ELSE
    LET direction == Direction(w.isFirstJump, w.x, w.innerWidth,
                               w.lastDirection, flip)
    IN IF direction = 0
       THEN Resolve([w EXCEPT !.isJumping = FALSE], byPointer)
       ELSE
         LET w1 == [w EXCEPT !.isFirstJump = FALSE,
                             !.lastDirection = direction,
                             !.classes[w.element] =
                               JumpClasses(@, w.isFirstJump, direction),
                             !.anims[w.element] = @ \cup {JumpSprite}]
             w2 == startGlowAnimation(w1)
         IN [w2 EXCEPT !.elListeners[w.element] =
                          Append(@, OnJumpEnd(direction, w.isFirstJump, byPointer))]

\* Rabbit.jump. byPointer tells whether the caller is the pointer handler,
\* which chains the cooldown continuation on the returned promise.
jump(w, flip, byPointer) ==
  IF w.element = Null \/ w.isSpawning THEN Resolve(w, byPointer)
  ELSE
    LET direction == Direction(w.isFirstJump, w.x, w.innerWidth,
                               w.lastDirection, flip)
    IN IF direction = 0
       THEN Resolve([w EXCEPT !.isJumping = FALSE], byPointer)
       ELSE
         LET w1 == [w EXCEPT !.isFirstJump = FALSE,
                             !.lastDirection = direction,
                             !.classes[w.element] =
                               JumpClasses(@, w.isFirstJump, direction),
                             !.anims[w.element] = @ \cup {JumpSprite}]
             w2 == startGlowAnimation(w1)
         IN [w2 EXCEPT !.elListeners[w.element] =
                          Append(@, OnJumpEnd(direction, w.isFirstJump, byPointer))]

\* onSpawnEnd leaving the glow loop running.
onSpawnEnd_KeepsGlow(w) ==
  LET w2 == [w EXCEPT !.isSpawning = FALSE,
                      !.classes[w.element] = @ \ {"spawning"},
                      !.anims[w.element] = @ \ {SpawnDrop},
                      !.y = w.innerHeight - height * scale]
  IN updatePosition(w2)

\* The body of onSpawnEnd for an event named rabbit-spawn-drop, with
\* this.element non-null (the caller handles null).
onSpawnEnd(w) ==
  LET w1 == stopGlowAnimation(w)
      w2 == [w1 EXCEPT !.isSpawning = FALSE,
                       !.classes[w.element] = @ \ {"spawning"},
                       !.anims[w.element] = @ \ {SpawnDrop},
                       !.y = w.innerHeight - height * scale]
  IN updatePosition(w2)

\* onJumpEnd resolving the promise without clearing isJumping.
onJumpEnd_KeepsJumping(w, l) ==
  LET w1 == updatePosition([w EXCEPT !.x = w.x - jumpDistance * l.direction])
      w2 == stopGlowAnimation(
              [w1 EXCEPT !.classes[w.element] = @ \ {"jumping"},
                         !.anims[w.element] = @ \ {JumpSprite}])
      w3 == [w2 EXCEPT !.classes[w.element] =
                         IF l.first
                           THEN (@ \ {"color-fade"}) \cup {"color-revealed"}
                           ELSE @,
                       !.colorRevealed = IF l.first THEN TRUE ELSE @]
  IN IF l.resolved THEN w3 ELSE Resolve(w3, l.byPointer)

\* onJumpEnd moving x with the sign of the direction instead of against it.
onJumpEnd_WrongSign(w, l) ==
  LET w1 == updatePosition([w EXCEPT !.x = w.x + jumpDistance * l.direction])
      w2 == stopGlowAnimation(
              [w1 EXCEPT !.classes[w.element] = @ \ {"jumping"},
                         !.anims[w.element] = @ \ {JumpSprite}])
      w3 == [w2 EXCEPT !.classes[w.element] =
                         IF l.first
                           THEN (@ \ {"color-fade"}) \cup {"color-revealed"}
                           ELSE @,
                       !.colorRevealed = IF l.first THEN TRUE ELSE @,
                       !.isJumping = FALSE]
  IN IF l.resolved THEN w3 ELSE Resolve(w3, l.byPointer)

\* onJumpEnd writing its captured isFirstJump into colorRevealed on every
\* jump instead of latching it on the first.
onJumpEnd_Unlatched(w, l) ==
  LET w1 == updatePosition([w EXCEPT !.x = w.x - jumpDistance * l.direction])
      w2 == stopGlowAnimation(
              [w1 EXCEPT !.classes[w.element] = @ \ {"jumping"},
                         !.anims[w.element] = @ \ {JumpSprite}])
      w3 == [w2 EXCEPT !.classes[w.element] =
                         IF l.first
                           THEN (@ \ {"color-fade"}) \cup {"color-revealed"}
                           ELSE @,
                       !.colorRevealed = l.first,
                       !.isJumping = FALSE]
  IN IF l.resolved THEN w3 ELSE Resolve(w3, l.byPointer)

\* The body of onJumpEnd for an event named rabbit-jump-sprite, with
\* this.element non-null; l is the listener (its captured direction and
\* isFirstJump). resolve() on a promise already resolved does nothing.
onJumpEnd(w, l) ==
  LET w1 == updatePosition([w EXCEPT !.x = w.x - jumpDistance * l.direction])
      w2 == stopGlowAnimation(
              [w1 EXCEPT !.classes[w.element] = @ \ {"jumping"},
                         !.anims[w.element] = @ \ {JumpSprite}])
      w3 == [w2 EXCEPT !.classes[w.element] =
                         IF l.first
                           THEN (@ \ {"color-fade"}) \cup {"color-revealed"}
                           ELSE @,
                       !.colorRevealed = IF l.first THEN TRUE ELSE @,
                       !.isJumping = FALSE]
  IN IF l.resolved THEN w3 ELSE Resolve(w3, l.byPointer)

\* The earlyMouseHandler closure of spawnAndDrop
earlyMouseHandlerBody(w, p) == [w EXCEPT !.lastMouse = p]

\* mouseHandler without isJumping in its guard.
mouseHandlerBody_NoJumpingGuard(w, p, d, flip) ==
  LET w1 == [w EXCEPT !.lastMouse = p]
      distance == getDistanceToBottomCenter(w1, d)
      w2 == IF w1.glowAnimationId = Null THEN updateGlow(w1, distance) ELSE w1
  IN IF w2.isSpawning \/ w2.jumpCooldown THEN w2
     ELSE IF LtJS(distance, Num(mouseThreshold))
       THEN jump([w2 EXCEPT !.isJumping = TRUE], flip, TRUE)
       ELSE w2

\* The mouseHandler closure of enableMouseReaction; threshold is the
\* default, RABBIT_CONFIG.mouseThreshold.
mouseHandlerBody(w, p, d, flip) ==
  LET w1 == [w EXCEPT !.lastMouse = p]
      distance == getDistanceToBottomCenter(w1, d)
      w2 == IF w1.glowAnimationId = Null THEN updateGlow(w1, distance) ELSE w1
  IN IF w2.isSpawning \/ w2.isJumping \/ w2.jumpCooldown THEN w2
     ELSE IF LtJS(distance, Num(mouseThreshold))
       THEN jump([w2 EXCEPT !.isJumping = TRUE], flip, TRUE)
       ELSE w2

\* clickHandler without the radius check: every click boosts.
clickHandlerBody_NoRadiusCheck(w, d) ==
  LET distance == getDistanceToBottomCenter(w, d)
  IN updateGlow(
       [w EXCEPT !.permanentGlowBonus =
          MathMin(AddJS(w.permanentGlowBonus, glowBoostPerClick),
                  maxPermanentGlow)],
       distance)

\* The clickHandler closure of enableMouseReaction
clickHandlerBody(w, d) ==
  LET distance == getDistanceToBottomCenter(w, d)
  IN IF LtJS(distance, clickRadius)
     THEN updateGlow(
            [w EXCEPT !.permanentGlowBonus =
               MathMin(AddJS(w.permanentGlowBonus, glowBoostPerClick),
                       maxPermanentGlow)],
            distance)
     ELSE w

\* Rabbit.enableMouseReaction()
enableMouseReaction(w) ==
  IF w.element = Null THEN w
  ELSE
    LET w1 == IF w.earlyMouseHandler = Null THEN w
              ELSE [w EXCEPT !.docListeners =
                               @ \ {Closure("early", w.earlyMouseHandler)},
                             !.earlyMouseHandler = Null]
        m == FreshId(Subscribed(w1, "mouse"))
        c == FreshId(Subscribed(w1, "click"))
        w2 == [w1 EXCEPT !.mouseHandler = m, !.clickHandler = c]
    IN addEventListener(addEventListener(w2, Closure("mouse", m)),
                        Closure("click", c))

\* Rabbit.disableMouseReaction
disableMouseReaction(w) ==
  LET w1 == stopGlowAnimation(w)
      w2 == IF w1.earlyMouseHandler = Null THEN w1
            ELSE [w1 EXCEPT !.docListeners =
                              @ \ {Closure("early", w1.earlyMouseHandler)},
                            !.earlyMouseHandler = Null]
      w3 == IF w2.mouseHandler = Null THEN w2
            ELSE [w2 EXCEPT !.docListeners =
                              @ \ {Closure("mouse", w2.mouseHandler)},
                            !.eventHandlers =
                              @ \ {Closure("mouse", w2.mouseHandler)},
                            !.mouseHandler = Null]
  IN IF w3.clickHandler = Null THEN w3
     ELSE [w3 EXCEPT !.docListeners =
                       @ \ {Closure("click", w3.clickHandler)},
                     !.eventHandlers =
                       @ \ {Closure("click", w3.clickHandler)},
                     !.clickHandler = Null]

\* Rabbit.destroy
destroy(w) == SpriteDestroy(disableMouseReaction(w))

\* The callback Sprite.setTimeout wraps around the cooldown callback.
timerCallback(w, id) ==
  [w EXCEPT !.envTimers = @ \ {id},
            !.timers = @ \ {id},
            !.jumpCooldown = FALSE]

\* ------------------------------------------------------ event dispatch
\* n mouseHandler closures run one after the other on the same event; all
\* of them are the same code with the same threshold.
RECURSIVE RunMouseHandlers(_, _, _, _, _)
RunMouseHandlers(w, n, p, d, flip) ==
  IF n = 0 THEN w
  ELSE RunMouseHandlers(mouseHandlerBody(w, p, d, flip), n - 1, p, d, flip)

\* n clickHandler closures run on the same event.
RECURSIVE RunClickHandlers(_, _, _)
RunClickHandlers(w, n, d) ==
  IF n = 0 THEN w ELSE RunClickHandlers(clickHandlerBody(w, d), n - 1, d)

\* document dispatches a mousemove at p to every subscribed closure.
dispatchMouseMove(w, p, d, flip) ==
  LET w1 == IF Subscribed(w, "early") = {} THEN w
            ELSE earlyMouseHandlerBody(w, p)
  IN RunMouseHandlers(w1, Cardinality(Subscribed(w, "mouse")), p, d, flip)

\* document dispatches a click to every subscribed closure.
dispatchClick(w, d) ==
  RunClickHandlers(w, Cardinality(Subscribed(w, "click")), d)

\* The dispatch with listeners that do not test e.animationName.
RECURSIVE dispatchAnimationEnd_NoFilter(_, _, _, _, _)
dispatchAnimationEnd_NoFilter(w, e, name, pending, kept) ==
  IF pending = <<>> THEN [w EXCEPT !.elListeners[e] = kept]
  ELSE
    LET l == Head(pending)
        rest == Tail(pending)
    IN IF w.element = Null
         THEN dispatchAnimationEnd_NoFilter([w EXCEPT !.thrown = TRUE], e, name,
                                            rest, Append(kept, l))
       ELSE
         LET w1 == IF l.kind = "spawn" THEN onSpawnEnd(w) ELSE onJumpEnd(w, l)
             kept1 == IF w.element = e THEN kept
                      ELSE Append(kept, [l EXCEPT !.resolved = TRUE])
         IN dispatchAnimationEnd_NoFilter(w1, e, name, rest, kept1)

\* Element e dispatches animationend named `name` to the listeners it had
\* when the dispatch began (pending), in order; kept collects those still
\* subscribed on e afterwards. A listener whose name check fails returns.
\* One that passes dereferences this.element: a TypeError when it is null;
\* otherwise it unsubscribes itself from this.element, which takes it off e
\* only when e is this.element, and runs its body.
RECURSIVE dispatchAnimationEnd(_, _, _, _, _)
dispatchAnimationEnd(w, e, name, pending, kept) ==
  IF pending = <<>> THEN [w EXCEPT !.elListeners[e] = kept]
  ELSE
    LET l == Head(pending)
        rest == Tail(pending)
        named == \/ l.kind = "spawn" /\ name = SpawnDrop
                 \/ l.kind = "jump" /\ name = JumpSprite
    IN IF ~named THEN dispatchAnimationEnd(w, e, name, rest, Append(kept, l))
       ELSE IF w.element = Null
         THEN dispatchAnimationEnd([w EXCEPT !.thrown = TRUE], e, name, rest,
                                   Append(kept, l))
       ELSE
         LET w1 == IF l.kind = "spawn" THEN onSpawnEnd(w) ELSE onJumpEnd(w, l)
             kept1 == IF w.element = e THEN kept
                      ELSE Append(kept, [l EXCEPT !.resolved = TRUE])
         IN dispatchAnimationEnd(w1, e, name, rest, kept1)

\* The animation `name` running on e ends and e dispatches animationend.
animationEnd(w, e, name) ==
  dispatchAnimationEnd([w EXCEPT !.anims[e] = @ \ {name}], e, name,
                       w.elListeners[e], <<>>)

\* ------------------------------------------------------------- actions
\* The worlds the bounds admit.
WithinBounds(w) ==
  /\ w.created <= MaxElements
  /\ \A e \in ElementIds : Len(w.elListeners[e]) <= MaxListeners
  /\ \A k \in {"early", "mouse", "click"} :
       Cardinality(Subscribed(w, k)) <= MaxClosures
  /\ Cardinality(w.envTimers) <= MaxTimers
  /\ w.x <= MaxAbsX /\ -w.x <= MaxAbsX

\* A call that may create an element has one left to create.
CanCreate == element # Null \/ created < MaxElements

Step(w) == WithinBounds(w) /\ Become(w)

Spawn == CanCreate /\ Step(spawn(World))

SpawnAndDrop ==
  /\ CanCreate
  /\ \E px \in SpawnXs, py \in SpawnYs : Step(spawnAndDrop(World, px, py))

\* A direct call of Sprite.setPosition.
SetPosition ==
  \E px \in SpawnXs, py \in SpawnYs : Step(setPosition(World, px, py))

EnableMouseReaction == Step(enableMouseReaction(World))

DisableMouseReaction == Step(disableMouseReaction(World))

Destroy == Step(destroy(World))

\* A direct call of the exposed jump().
Jump == \E flip \in Draws : Step(jump(World, flip, FALSE))

MouseMove ==
  \E p \in Pointers, d \in Distances, flip \in Draws :
    Step(dispatchMouseMove(World, p, d, flip))

Click == \E d \in Distances : Step(dispatchClick(World, d))

\* A running animation of an element ends. The element may have been
\* detached since the animation started: the event was already due.
AnimationEnd ==
  \E e \in ElementIds : \E name \in anims[e] :
    Step(animationEnd(World, e, name))

\* An animation the listeners do not wait for ends on an attached element.
OtherAnimationEnd ==
  \E e \in attached : Step(animationEnd(World, e, OtherAnimation))

TimerFires == \E id \in envTimers : Step(timerCallback(World, id))

Frame ==
  \E id \in rafPending, d \in Distances : Step(animate(World, id, d))

\* Everything but direct calls of jump(): the page as main.js drives it.
NextPointer ==
  \/ Spawn
  \/ SpawnAndDrop
  \/ SetPosition
  \/ EnableMouseReaction
  \/ DisableMouseReaction
  \/ Destroy
  \/ MouseMove
  \/ Click
  \/ AnimationEnd
  \/ OtherAnimationEnd
  \/ TimerFires
  \/ Frame

Next == NextPointer \/ Jump

Spec == Init /\ [][Next]_vars

SpecPointer == Init /\ [][NextPointer]_vars

\* The rabbit-spawn-drop animation of an element ends.
DropAnimationEnds ==
  \E e \in ElementIds :
    /\ SpawnDrop \in anims[e]
    /\ \E w \in {animationEnd(World, e, SpawnDrop)} : Step(w)

\* The rabbit-jump-sprite animation of an element ends.
JumpAnimationEnds ==
  \E e \in ElementIds :
    /\ JumpSprite \in anims[e]
    /\ \E w \in {animationEnd(World, e, JumpSprite)} : Step(w)

\* The page with a pointer: the rabbit is spawned, its mouse reaction is
\* switched on and off, and the browser delivers pointer events, animation
\* ends, timeouts and frames. Jumps start from the mousemove handler only,
\* and destroy() is not called.
NextLive ==
  \/ SpawnAndDrop
  \/ EnableMouseReaction
  \/ DisableMouseReaction
  \/ MouseMove
  \/ Click
  \/ AnimationEnd
  \/ OtherAnimationEnd
  \/ TimerFires
  \/ Frame

\* The browser delivers the animationend of every animation it runs and
\* runs every timeout it holds; destroy() is not called.
SpecLive ==
  /\ Init /\ [][NextLive]_vars
  /\ WF_vars(DropAnimationEnds)
  /\ WF_vars(JumpAnimationEnds)
  /\ WF_vars(TimerFires)

\* ------------------------------------------------------------- main.js
\* The lengths of the user names tried: 0 stands for a URL without a name
\* (params.get('name') is null, and an empty name is falsy as well).
UserNameLengths == {0, MaxNameLength}

\* wakeUpText: 'Wake up...' has 10 characters, `Wake up, ${username}...` has
\* 12 more than the name.
WakeUpLength(n) == IF n = 0 THEN 10 ELSE 12 + n

\* 'Follow the white rabbit.'
FollowLength == 24

\* introSequence, each text by its length.
introSequence(b) ==
  << [length |-> b.wakeUpLength, submit |-> TRUE],
     [length |-> FollowLength,   submit |-> FALSE] >>

\* main() has been called and awaits preloadImage(); the Terminal has been
\* constructed with one empty active line.
BootStart(n) ==
  [NoBoot EXCEPT !.pc = "preload", !.wakeUpLength = WakeUpLength(n)]

\* The head of the for-of loop of Terminal.run: the n-th command starts, or
\* the loop is over, run() resolves and main() awaits sleep(1500).
beginCommand(b, n) ==
  IF n > Len(introSequence(b))
  THEN [b EXCEPT !.pc = "sleep"]
  ELSE [b EXCEPT !.pc = "type", !.cmd = n, !.typed = 0]

\* img.onload: the promise of preloadImage resolves and main() goes on to
\* terminal.run(introSequence).
preloadResolved(b) ==
  beginCommand([b EXCEPT !.preload = "loaded"], 1)

\* The rejection handled as if it were a success.
preloadRejected_Swallowed(b) ==
  beginCommand([b EXCEPT !.preload = "failed"], 1)

\* img.onerror: the promise rejects, the await throws and the catch block
\* of main() replaces the terminal's content by the error message.
preloadRejected(b) ==
  [b EXCEPT !.preload = "failed", !.pc = "failed", !.errorShown = TRUE,
            !.currentLine = <<>>, !.history = <<>>]

\* Terminal.addChar, called by Terminal.type: one more character of the
\* running command goes into the current line. A character is recorded by
\* the index of the command it belongs to.
addChar(b) ==
  [b EXCEPT !.currentLine = Append(@, b.cmd), !.typed = @ + 1]

\* Terminal.submitLine: the current line moves to the history and a new
\* empty line becomes current.
submitLine(b) ==
  [b EXCEPT !.history = Append(@, b.currentLine), !.currentLine = <<>>]

PreloadSucceeds ==
  /\ boot.pc = "preload"
  /\ boot' = preloadResolved(boot)
  /\ UNCHANGED actorVars

PreloadFails ==
  /\ boot.pc = "preload"
  /\ boot' = preloadRejected(boot)
  /\ UNCHANGED actorVars

\* One turn of the loop of Terminal.type.
TypeChar ==
  /\ boot.pc = "type"
  /\ boot.typed < introSequence(boot)[boot.cmd].length
  /\ boot' = addChar(boot)
  /\ UNCHANGED actorVars

\* Terminal.type resolves: typeLine goes on to its first linePause sleep, a
\* command that is not submitted is over and the loop of run() goes on.
TypeEnds ==
  /\ boot.pc = "type"
  /\ boot.typed = introSequence(boot)[boot.cmd].length
  /\ boot' = IF introSequence(boot)[boot.cmd].submit
             THEN [boot EXCEPT !.pc = "linePause"]
             ELSE beginCommand(boot, boot.cmd + 1)
  /\ UNCHANGED actorVars

\* The first sleep of typeLine ends: submitLine(), then the second sleep.
SubmitLine ==
  /\ boot.pc = "linePause"
  /\ boot' = [submitLine(boot) EXCEPT !.pc = "submitted"]
  /\ UNCHANGED actorVars

\* The second sleep of typeLine ends: the command is over.
LineEnds ==
  /\ boot.pc = "submitted"
  /\ boot' = beginCommand(boot, boot.cmd + 1)
  /\ UNCHANGED actorVars

\* sleep(1500) ends: hideCursor(), new Rabbit(), spawnAndDrop at the
\* cursor's position, enableMouseReaction().
SpawnRabbit ==
  /\ boot.pc = "sleep"
  /\ \E cx \in SpawnXs, cy \in SpawnYs :
       \E w \in {enableMouseReaction(spawnAndDrop(World, cx, cy))} :
         /\ WithinBounds(w)
         /\ BecomeActor(w)
  /\ boot' = [boot EXCEPT !.pc = "done", !.cursorHidden = TRUE,
                          !.rabbit = TRUE]

\* What the page delivers to the rabbit main() has created: nothing else
\* holds a reference to it.
NextMain ==
  \/ PreloadSucceeds
  \/ PreloadFails
  \/ TypeChar
  \/ TypeEnds
  \/ SubmitLine
  \/ LineEnds
  \/ SpawnRabbit
  \/ MouseMove
  \/ Click
  \/ AnimationEnd
  \/ OtherAnimationEnd
  \/ TimerFires
  \/ Frame

InitMain ==
  /\ RabbitConstructed
  /\ boot \in {BootStart(n) : n \in UserNameLengths}

SpecMain == InitMain /\ [][NextMain]_vars

\* ----------------------------------------------------------- claims
\* The onJumpEnd listeners whose promise has not been resolved: the jumps
\* that have started their animation and are still in flight.
JumpsInFlight ==
  Cardinality({ei \in ElementIds \X (1..MaxListeners + 1) :
                 /\ ei[2] <= Len(elListeners[ei[1]])
                 /\ elListeners[ei[1]][ei[2]].kind = "jump"
                 /\ ~elListeners[ei[1]][ei[2]].resolved})

\* The first jump has started and its completion has not been handled.
FirstJumpPending ==
  \E e \in ElementIds : \E i \in 1..Len(elListeners[e]) :
    /\ elListeners[e][i].kind = "jump"
    /\ elListeners[e][i].first
    /\ ~elListeners[e][i].resolved

\* C1: with no direct call of jump(), while a pointer-triggered jump is in
\* flight isJumping is true and no step, a pointer-move within the
\* threshold included, starts another jump.
C1_NoReentrantPointerJump ==
  [][JumpsInFlight >= 1 => (isJumping /\ JumpsInFlight' <= JumpsInFlight)]_vars

\* A pointer-triggered jump is in flight with a mouseHandler subscribed and
\* neither spawning nor cooldown in the way: only isJumping stands between
\* the next pointer-move within the threshold and a second jump.
C1_Witness ==
  /\ JumpsInFlight = 1
  /\ element # Null
  /\ elListeners[element] # <<>>
  /\ elListeners[element][1].kind = "jump"
  /\ elListeners[element][1].byPointer
  /\ Subscribed(World, "mouse") # {}
  /\ ~isSpawning /\ ~jumpCooldown
  /\ lastMouse # NoMouse

\* C2: counting the jumps started by the pointer handler and by direct
\* calls of jump(), at most one jump is in flight.
C2_AtMostOneJumpInFlight == JumpsInFlight <= 1

\* C3: colorRevealed is false as long as the first jump has not started or
\* its completion has not been handled, is true after the step that handles
\* that completion, and no step sets it back to false.
C3_ColorRevealedLatch ==
  /\ [](colorRevealed => (~isFirstJump /\ ~FirstJumpPending))
  /\ [][/\ (FirstJumpPending /\ ~FirstJumpPending') => colorRevealed'
        /\ colorRevealed => colorRevealed']_vars

\* The colour has been revealed and a later jump is in flight.
C3_Witness == colorRevealed /\ JumpsInFlight = 1 /\ isJumping

\* C4: permanentGlowBonus is at least 0 and at most the configured
\* maxPermanentGlow in every state, and no step decreases it.
C4_GlowBonusWithinCeiling ==
  /\ [](/\ LeJS(Num(0), permanentGlowBonus)
        /\ LeJS(permanentGlowBonus, maxPermanentGlow))
  /\ [][LeJS(permanentGlowBonus, permanentGlowBonus')]_vars

\* A click whose distance to the rendered bottom-center is below
\* clickRadius reaches a subscribed clickHandler in this step.
QualifyingClick ==
  \E d \in Distances :
    /\ Subscribed(World, "click") # {}
    /\ LtJS(getDistanceToBottomCenter(World, d), clickRadius)
    /\ Become(dispatchClick(World, d))

\* C5: a step that alters permanentGlowBonus is a click below clickRadius;
\* every other step leaves it unchanged.
C5_OnlyQualifyingClicksAlterBonus ==
  [][permanentGlowBonus' # permanentGlowBonus => QualifyingClick]_vars

\* A pointer-triggered first jump has completed and its cooldown is
\* running, with clicks subscribed: pointer-moves, a jump start and
\* completion and the spawn completion lie behind, the bonus is untouched.
C5_Witness ==
  /\ colorRevealed /\ jumpCooldown /\ timers # {}
  /\ lastMouse # NoMouse
  /\ Subscribed(World, "click") # {}
  /\ permanentGlowBonus = Num(0)

\* C6: with a clickHandler subscribed, a click at the rendered
\* bottom-center (distance 0) sets permanentGlowBonus to
\* min(previous + glowBoostPerClick, maxPermanentGlow), which is above
\* the previous value while that is below the maximum.
C6_ClickBoostsBonus ==
  (element # Null /\ Subscribed(World, "click") # {}) =>
    LET after == dispatchClick(World, Num(0)).permanentGlowBonus
    IN /\ after = MathMin(AddJS(permanentGlowBonus, glowBoostPerClick),
                          maxPermanentGlow)
       /\ LtJS(permanentGlowBonus, after) \/ after = maxPermanentGlow

\* C7: from every reachable state, destroy() called twice leaves the world
\* destroy() called once leaves: the second call removes no listener,
\* cancels no timer, detaches nothing and throws nothing.
C7_DestroyIdempotent == destroy(destroy(World)) = destroy(World)

\* destroy() has been called while a jump was in flight on a spawned
\* element, and calling it again changes nothing.
C7_Witness ==
  /\ isDestroyed /\ element = Null /\ created = 1
  /\ JumpsInFlight = 1
  /\ destroy(World) = World

\* C8: after the first destroy() nothing the actor installed remains: no
\* closure is subscribed on document, the tracked listeners and timers are
\* empty, no timeout is pending and the glow loop is not running.
C8_NothingDanglesAfterDestroy ==
  (isDestroyed /\ element = Null) =>
    /\ docListeners = {}
    /\ eventHandlers = {} /\ timers = {} /\ envTimers = {}
    /\ glowAnimationId = Null /\ rafPending = {}

\* C9: once destroy() has been called the actor owns no element, whatever
\* is called afterwards.
C9_NoResurrection == isDestroyed => (element = Null /\ attached = {})

\* The onJumpEnd listeners among ls.
JumpListeners(ls) == {i \in 1..Len(ls) : ls[i].kind = "jump"}

\* A step starts a jump: an onJumpEnd listener is added to the element.
JumpStarts ==
  /\ element # Null /\ element' = element
  /\ Cardinality(JumpListeners(elListeners'[element]))
       > Cardinality(JumpListeners(elListeners[element]))

\* C10: a jump that chooses a direction from x chooses right (-1) when
\* x - J < 20 and left (1) when x + J + Vw > W - 20.
C10_EdgeForcesDirection ==
  [][JumpStarts =>
       /\ ~canGoLeft(x) => lastDirection' = -1
       /\ ~canGoRight(x, innerWidth) => lastDirection' = 1]_vars

\* C11: a jump requested on a spawned, landed actor with neither direction
\* feasible, the first jump included, resolves at once: x and lastDirection
\* keep their values, no jump animation or glow loop is started, no
\* completion listener is added and isJumping is false afterwards.
C11_TrappedJumpAborts ==
  (element # Null /\ ~isSpawning /\ ~canGoLeft(x) /\ ~canGoRight(x, innerWidth))
    => \A flip \in Draws :
         LET after == jump(World, flip, FALSE)
         IN /\ after.x = x
            /\ after.lastDirection = lastDirection
            /\ after.anims = anims
            /\ after.classes = classes
            /\ after.elListeners = elListeners
            /\ after.glowAnimationId = glowAnimationId
            /\ ~after.isJumping

\* A step completes the jump whose listener is l: l is the only onJumpEnd
\* listener on the element and the step takes it off.
SoleJumpCompletes(l) ==
  /\ element # Null /\ element' = element
  /\ \E i \in 1..Len(elListeners[element]) :
       /\ JumpListeners(elListeners[element]) = {i}
       /\ elListeners[element][i] = l
  /\ JumpListeners(elListeners'[element]) = {}

\* The onJumpEnd listeners a state can hold.
JumpListenerValues ==
  {OnJumpEnd(d, f, b) : d \in {-1, 1}, f \in BOOLEAN, b \in BOOLEAN}

C13_UpdatesBeforeResolve ==
  [][/\ JumpStarts => (x' = x /\ colorRevealed' = colorRevealed)
     /\ \A l \in JumpListenerValues :
          SoleJumpCompletes(l) =>
            /\ x' = x - jumpDistance * l.direction
            /\ ~isJumping'
            /\ l.first => colorRevealed'
            /\ l.byPointer =>
                 /\ jumpCooldown'
                 /\ \E id \in timers' : id \notin timers /\ id \in envTimers']_vars

\* A pointer-triggered first jump from x = 200 has completed: its
\* continuation has set the cooldown, whose timer is pending, with x
\* updated and isJumping false.
C13_Witness ==
  /\ innerWidth = 1000 /\ x = 500
  /\ jumpCooldown /\ timers # {} /\ timers \subseteq envTimers
  /\ ~isJumping /\ colorRevealed /\ JumpsInFlight = 0
  /\ Subscribed(World, "mouse") # {}

\* C14: while the actor has no element or is still spawning, a direct
\* jump() changes nothing at all (x, lastDirection, isFirstJump, isJumping,
\* the classes, the listeners and the glow loop included), and a
\* pointer-move at any distance sets no isJumping and starts no jump.
C14_NoJumpBeforeLanding ==
  (element = Null \/ isSpawning) =>
    /\ \A flip \in Draws : jump(World, flip, FALSE) = World
    /\ \A p \in Pointers, d \in Distances, flip \in Draws :
         LET after == dispatchMouseMove(World, p, d, flip)
         IN /\ after.isJumping = isJumping
            /\ after.x = x
            /\ after.lastDirection = lastDirection
            /\ after.isFirstJump = isFirstJump
            /\ after.classes = classes
            /\ after.anims = anims
            /\ after.elListeners = elListeners
            /\ after.rafPending = rafPending

\* The actor is still spawning with its mouseHandler subscribed (main.js
\* enables the reaction right after spawnAndDrop) and a pointer-move has
\* been handled: no jump is in flight.
C14_Witness ==
  /\ element # Null /\ isSpawning
  /\ "spawning" \in classes[element]
  /\ Subscribed(World, "mouse") # {}
  /\ lastMouse # NoMouse
  /\ ~isJumping /\ isFirstJump /\ JumpsInFlight = 0

\* C15: on an actor that already owns an element, spawn() and
\* spawnAndDrop() create no element and leave the owned element, the stored
\* position, the subscribed listeners and the glow loop as they were.
C15_SecondSpawnIsNoOp ==
  element # Null =>
    /\ spawn(World) = World
    /\ \A px \in SpawnXs, py \in SpawnYs :
         LET after == spawnAndDrop(World, px, py)
         IN /\ after.element = element
            /\ after.created = created
            /\ after.x = x /\ after.y = y
            /\ after.docListeners = docListeners
            /\ after.elListeners = elListeners
            /\ after.glowAnimationId = glowAnimationId
            /\ after.rafPending = rafPending

\* C16: at most one animation frame of the glow loop is pending, and it is
\* the one glowAnimationId names; startGlowAnimation on a running loop
\* changes nothing; a frame callback leaves exactly one frame pending; after
\* stopGlowAnimation no frame is pending, so no callback of the stopped loop
\* can run.
C16_OneGlowLoop ==
  /\ Cardinality(rafPending) <= 1
  /\ rafPending = (IF glowAnimationId = Null THEN {} ELSE {glowAnimationId})
  /\ glowAnimationId # Null => startGlowAnimation(World) = World
  /\ \A id \in rafPending, d \in Distances :
       Cardinality(animate(World, id, d).rafPending) = 1
  /\ stopGlowAnimation(World).rafPending = {}

\* Two jumps are in flight, the second started while the first one's loop
\* was running (each calls startGlowAnimation), with a pointer position
\* stored and the glow pushed to the element: one frame is pending.
C16_Witness ==
  /\ JumpsInFlight = 2
  /\ glowAnimationId # Null /\ rafPending = {glowAnimationId}
  /\ lastMouse # NoMouse
  /\ element # Null /\ style[element].glowIntensity # Unset

\* A step starts a pointer-triggered jump: the onJumpEnd listener it adds
\* to the element was registered for the pointer handler's call.
PointerJumpStarts ==
  /\ JumpStarts
  /\ elListeners'[element][Len(elListeners'[element])].byPointer

\* A step runs the callback of a tracked timer that is still pending.
CooldownTimerFires ==
  \E id \in timers \cap envTimers : Become(timerCallback(World, id))

\* C17: while jumpCooldown is true a pointer-move within the threshold
\* starts no jump and leaves isJumping as it was; jumpCooldown is cleared
\* only by a tracked timer firing; and while a cooldown timer is pending,
\* that is between a pointer-triggered jump's completion and the firing of
\* its timer, no pointer-triggered jump starts.
C17_CooldownBlocksPointerJumps ==
  [][/\ jumpCooldown =>
          \A p \in Pointers, d \in Distances, flip \in Draws :
            LET after == dispatchMouseMove(World, p, d, flip)
            IN /\ after.elListeners = elListeners
               /\ after.isJumping = isJumping
     /\ (jumpCooldown /\ ~jumpCooldown') => CooldownTimerFires
     /\ timers # {} => ~PointerJumpStarts]_vars

\* C18: no handler of the actor has thrown: a spawn-drop or jump completion
\* signal delivered after destroy() is handled without an error.
C18_NoOperationThrows == ~thrown

\* A step is one of the position-changing operations: a call of
\* spawnAndDrop or setPosition, or the delivery of a completion signal to
\* an onSpawnEnd or onJumpEnd listener.
PositionOperation ==
  \/ \E px \in SpawnXs, py \in SpawnYs : Become(spawnAndDrop(World, px, py))
  \/ \E px \in SpawnXs, py \in SpawnYs : Become(setPosition(World, px, py))
  \/ \E e \in ElementIds : \E name \in anims[e] :
       /\ \E i \in 1..Len(elListeners[e]) :
            elListeners[e][i].kind = (IF name = SpawnDrop THEN "spawn" ELSE "jump")
       /\ Become(animationEnd(World, e, name))

\* The same without setPosition: the operations the statement lists.
SpawnOrJumpCompletion ==
  \/ \E px \in SpawnXs, py \in SpawnYs : Become(spawnAndDrop(World, px, py))
  \/ \E e \in ElementIds : \E name \in anims[e] :
       /\ \E i \in 1..Len(elListeners[e]) :
            elListeners[e][i].kind = (IF name = SpawnDrop THEN "spawn" ELSE "jump")
       /\ Become(animationEnd(World, e, name))

\* C19 as stated: a step that changes x or y is a spawnAndDrop call, a drop
\* completion or a jump completion.
C19_PositionOnlyBySpawnAndJump ==
  [][(x' # x \/ y' # y) => SpawnOrJumpCompletion]_vars

\* C19 amended: a step that changes x or y is a spawnAndDrop call, a
\* setPosition call, a drop completion or a jump completion; pointer-moves,
\* clicks, frames, timers, jump starts, aborted jumps, enableMouseReaction,
\* disableMouseReaction and destroy leave x and y unchanged.
C19_PositionOnlyBySpawnJumpOrSetPosition ==
  [][(x' # x \/ y' # y) => PositionOperation]_vars

\* The actor has landed and jumped since, with the pointer reaction
\* enabled, a cooldown timer fired and the glow pushed: x and y hold what
\* the drop and the jump left.
C19_Witness ==
  /\ element # Null /\ ~isSpawning /\ colorRevealed
  /\ y = innerHeight - height * scale
  /\ innerWidth = 1000 /\ x = 700
  /\ Subscribed(World, "mouse") # {} /\ Subscribed(World, "click") # {}
  /\ ~jumpCooldown /\ timers = {} /\ lastMouse # NoMouse
  /\ style[element].glowIntensity # Unset

\* C20: with the values updateGlow reads from RABBIT_CONFIG, a distance
\* that is not below glowRange pushes an intensity of exactly
\* 1 + permanentGlowBonus and a spread of exactly 1, and distance 0 pushes
\* an intensity of exactly 1 + maxProximityGlow + permanentGlowBonus.
C20_GlowBoundaryValues ==
  element # Null =>
    \A d \in Distances :
      LET distance == getDistanceToBottomCenter(World, d)
          pushed == updateGlow(World, distance).style[element]
      IN /\ ~LtJS(distance, glowRange) =>
              /\ StrictEqJS(pushed.glowIntensity,
                            AddJS(Num(1), permanentGlowBonus))
              /\ StrictEqJS(pushed.glowSpread, Num(1))
         /\ distance = Num(0) =>
              StrictEqJS(pushed.glowIntensity,
                         AddJS(AddJS(Num(1), maxProximityGlow),
                               permanentGlowBonus))

\* The draws for which a jump requested in the current state ends with
\* lastDirection = dir.
DrawsChoosing(dir) ==
  {r \in RandomDraws : jump(World, FlipDraw(r), FALSE).lastDirection = dir}

\* C21: on a non-first jump with both directions feasible, one third of
\* the equally likely values of Math.random() choose the direction opposite
\* to lastDirection and two thirds repeat it; the direction chosen is the
\* one the jump's listener carries and the one left in lastDirection.
C21_BiasedDraw ==
  (/\ element # Null /\ ~isSpawning /\ ~isFirstJump
   /\ canGoLeft(x) /\ canGoRight(x, innerWidth)) =>
    /\ 3 * Cardinality(DrawsChoosing(-lastDirection)) = Cardinality(RandomDraws)
    /\ 3 * Cardinality(DrawsChoosing(lastDirection)) = 2 * Cardinality(RandomDraws)
    /\ \A r \in RandomDraws :
         LET after == jump(World, FlipDraw(r), FALSE)
             ls == after.elListeners[element]
         IN /\ Len(ls) = Len(elListeners[element]) + 1
            /\ ls[Len(ls)].kind = "jump"
            /\ ls[Len(ls)].direction = after.lastDirection

\* A non-first jump from x = 400 in a 1000px viewport, where both
\* directions are feasible, is in flight after the first jump went right:
\* the draw flipped it to the left.
C21_Witness ==
  /\ innerWidth = 1000 /\ x = 400 /\ element # Null
  /\ colorRevealed /\ lastDirection = 1
  /\ elListeners[element] = <<OnJumpEnd(1, FALSE, FALSE)>>

\* A pointer-triggered jump is in flight: its promise is not resolved.
PointerJumpInFlight ==
  \E e \in ElementIds : \E i \in 1..Len(elListeners[e]) :
    /\ elListeners[e][i].kind = "jump"
    /\ elListeners[e][i].byPointer
    /\ ~elListeners[e][i].resolved

\* C22: when animations deliver their completion signals, timers fire and
\* destroy() is not called, a pointer-triggered jump in flight is
\* eventually resolved, the actor eventually has isJumping and jumpCooldown
\* both false again, and in every such state with the pointer reaction
\* enabled a pointer-move within the threshold calls jump() again.
C22_JumpResolvesAndUnlocks ==
  /\ PointerJumpInFlight ~> ~PointerJumpInFlight
  /\ (isJumping \/ jumpCooldown \/ PointerJumpInFlight)
       ~> (~isJumping /\ ~jumpCooldown)
  /\ [](( /\ element # Null /\ ~isSpawning /\ ~isJumping /\ ~jumpCooldown
          /\ Subscribed(World, "mouse") # {}) =>
         \A p \in Pointers, flip \in Draws :
           LET after == dispatchMouseMove(World, p, Num(0), flip)
           IN after.isJumping \/ after.jumpCooldown)

\* A pointer-triggered second jump has completed and its cooldown has been
\* cleared by its timer: the actor is unlocked with the reaction enabled.
C22_Witness ==
  /\ element # Null /\ ~isSpawning /\ ~isJumping /\ ~jumpCooldown
  /\ timers = {} /\ envTimers = {}
  /\ Subscribed(World, "mouse") # {}
  /\ colorRevealed /\ innerWidth = 1000 /\ x = 400 /\ lastDirection = 1
  /\ JumpsInFlight = 0 /\ lastMouse # NoMouse

\* The listeners of one kind on a list, in order.
ListenersOfKind(ls, kind) == SelectSeq(ls, LAMBDA l : l.kind = kind)

DropHandled ==
  /\ element # Null
  /\ \E e \in ElementIds :
       /\ SpawnDrop \in anims[e]
       /\ ListenersOfKind(elListeners[e], "spawn") # <<>>
       /\ Become(animationEnd(World, e, SpawnDrop))

\* C24: isSpawning is true from construction; it becomes false only in a
\* step that handles the rabbit-spawn-drop signal; such a step leaves the
\* glow loop stopped, isSpawning false and y = innerHeight - height * scale;
\* and once false isSpawning stays false.
C24_SpawningUntilDropHandled ==
  /\ isSpawning = TRUE
  /\ [][/\ (isSpawning /\ ~isSpawning') => DropHandled
        /\ DropHandled =>
             /\ ~isSpawning'
             /\ glowAnimationId' = Null /\ rafPending' = {}
             /\ y' = innerHeight - height * scale
        /\ ~isSpawning => ~isSpawning']_vars

\* The drop has just been handled: the actor has landed, not yet jumped,
\* with the glow loop stopped and y on the ground line.
C24_Witness ==
  /\ element # Null /\ ~isSpawning /\ isFirstJump /\ ~isJumping
  /\ "spawning" \notin classes[element]
  /\ y = innerHeight - height * scale
  /\ glowAnimationId = Null /\ rafPending = {}
  /\ elListeners[element] = <<>> /\ anims[element] = {}

\* C25: when the actor owns an element, is not spawning and has no jump in
\* flight, no glow loop is scheduled.
C25_GlowLoopOnlyDuringMotion ==
  (element # Null /\ ~isSpawning /\ JumpsInFlight = 0) =>
    (glowAnimationId = Null /\ rafPending = {})

\* C26: whenever the actor owns an element, the element's left and top are
\* the stored x and y.
C26_PlacementFollowsPosition ==
  element # Null =>
    /\ style[element].left = Num(x)
    /\ style[element].top = Num(y)

\* setPosition has moved a spawned actor that was never dropped: x is 400
\* where spawn() left it at 0, and the element has followed.
C26_Witness ==
  /\ element # Null /\ isSpawning /\ x = 400
  /\ elListeners[element] = <<>> /\ docListeners = {}
  /\ "crt-effects" \notin classes[element]
  /\ style[element].left = Num(400)

\* C27: the tracked ids are exactly the pending timeouts scheduled through
\* the actor; a callback that fires is off the tracking list when its body
\* has run; and after destroy() returns none of the actor's timeouts is
\* pending, so a cooldown timer pending at destroy never runs.
C27_TrackedTimersArePending ==
  /\ timers = envTimers
  /\ \A id \in envTimers :
       LET after == timerCallback(World, id)
       IN after.timers = timers \ {id} /\ after.envTimers = envTimers \ {id}
  /\ destroy(World).envTimers = {}

\* C28: a jump started from a landed actor with 0 <= x <= W - Vw, the first
\* jump included, completes with x inside the edge margins: 20 <= x and
\* x + Vw <= W - 20.
C28_JumpsStayInsideMargins ==
  (/\ element # Null /\ ~isSpawning
   /\ 0 <= x /\ x <= innerWidth - width * scale) =>
    \A flip \in Draws :
      LET started == jump(World, flip, FALSE)
          ls == started.elListeners[element]
      IN Len(ls) > Len(elListeners[element]) =>
           LET landed == onJumpEnd(started, ls[Len(ls)])
           IN /\ edgeMargin <= landed.x
              /\ landed.x + width * scale <= innerWidth - edgeMargin

\* C29: after disableMouseReaction() returns, a pointer-move changes
\* nothing (it starts no jump and stores no pointer position) and a click
\* leaves permanentGlowBonus as it was, whatever enableMouseReaction()
\* calls came before.
C29_DisableSilencesPointer ==
  LET off == disableMouseReaction(World)
  IN /\ \A p \in Pointers, d \in Distances, flip \in Draws :
          dispatchMouseMove(off, p, d, flip) = off
     /\ \A d \in Distances :
          dispatchClick(off, d).permanentGlowBonus = off.permanentGlowBonus

\* What the terminal shows, read from top to bottom: the submitted lines,
\* then the current line.
RECURSIVE Flatten(_)
Flatten(lines) ==
  IF lines = <<>> THEN <<>> ELSE Head(lines) \o Flatten(Tail(lines))

TerminalText == Flatten(boot.history) \o boot.currentLine

CharsOf(n) == Cardinality({i \in 1..Len(TerminalText) : TerminalText[i] = n})

\* The n-th intro command is finished: all its characters are on the
\* terminal and, if it is submitted, its line is in the history.
CommandFinished(n) ==
  /\ CharsOf(n) = introSequence(boot)[n].length
  /\ introSequence(boot)[n].submit =>
       \E k \in 1..Len(boot.history) :
         boot.history[k] = [i \in 1..introSequence(boot)[n].length |-> n]

\* C30: in the page bootstrap the intro commands are typed strictly in
\* order, each one finished before the next starts; the rabbit is created
\* and spawned only after the preload has succeeded and the whole intro is
\* finished; if the preload fails the intro is never typed, no rabbit is
\* spawned and the error message is shown instead.
C30_BootstrapOrder ==
  /\ \A i, j \in 1..Len(TerminalText) :
       i < j => TerminalText[i] <= TerminalText[j]
  /\ \A n, m \in 1..Len(introSequence(boot)) :
       (n < m /\ CharsOf(m) > 0) => CommandFinished(n)
  /\ \A n \in 1..Len(introSequence(boot)) :
       CharsOf(n) <= introSequence(boot)[n].length
  /\ (boot.rabbit \/ created > 0 \/ element # Null) =>
       /\ boot.preload = "loaded"
       /\ \A n \in 1..Len(introSequence(boot)) : CommandFinished(n)
  /\ TerminalText # <<>> => boot.preload = "loaded"
  /\ boot.preload = "failed" =>
       /\ TerminalText = <<>>
       /\ ~boot.rabbit /\ created = 0 /\ element = Null
       /\ boot.errorShown
  /\ boot.errorShown => boot.preload = "failed"

\* The intro of a named visitor has been typed in full and the rabbit has
\* landed.
C30_Witness ==
  /\ boot.rabbit
  /\ boot.wakeUpLength = WakeUpLength(MaxNameLength)
  /\ boot.history = << [i \in 1..WakeUpLength(MaxNameLength) |-> 1] >>
  /\ boot.currentLine = [i \in 1..FollowLength |-> 2]
  /\ element # Null
  /\ ~isSpawning

====
